---- MODULE Spec2Model ----
(***************************************************************************)
(* Guerilla: the repo-checkout task (tasks/javascript/repo-checkout.js)    *)
(* the device manager with its simctl listing parser, and the pipeline     *)
(* orchestrator with the summary of its result tree.                       *)
(*                                                                         *)
(* Strings the code inspects character by character (listing lines, error *)
(* messages, stdout data) are sequences of one-character strings; indexes  *)
(* in the string helpers are 0-based as in JavaScript.                     *)
(***************************************************************************)
EXTENDS Integers, Sequences, FiniteSets, TLC

VARIABLES
    \* ---- repo-checkout task ----
    pc,         \* "idle", the command in flight ("mkdir","init","sync","revparse"), "done"
    params,     \* the params object handed to execute
    context,    \* the shared context object (a function from keys to values)
    issued,     \* the exec calls made so far, in order: [cmd, args, options]
    output,     \* the output object of execute (a function from keys to values)
    cbCalls,    \* the invocations of execute's callback so far: [error, output]
    delivered,  \* number of stdout lines the runner delivered to the stdout option
    completed,  \* the error arguments the runner completed the issued commands
                \* with, in issue order (null: the command succeeded)
    \* ---- simctl listing parser ----
    simctlString,   \* the text `xcrun simctl list` printed
    parseState,     \* "ready", "returned" or "threw": how getSimulatedDevices ended
    simulatedDevices, \* the array getSimulatedDevices returned
    parseError,     \* the message of the Error it threw
    createCalls,    \* the createDevice calls it made, in order: [oslevel, line, index]
    \* ---- device manager ----
    config,         \* the config module: an object that may have a devices key
    simctlFails,    \* whether the listing command fails (it exits nonzero or times out)
    manager,        \* the DeviceManager: [state, devicesByTag, devices], state being
                    \* "none" (not constructed), "built" or "failed" (the constructor threw)
    found,          \* the findByTag calls made so far, in order: [tag, result]
    \* ---- the parser, loop by loop ----
    streamLines,    \* the array makeSimctlStream was given
    cursor,         \* nextIndex, the stream's cursor (0-based)
    loop,           \* "none", or where getSimulatedDevicesFromLines is: "types",
                    \* "devices" (the two advanceTillMatch), "oslevel", "entry"
                    \* (the loops of getOSLevelEntries), "returned", "threw"
    currentOSLevel, \* the variable oslevel of getOSLevelEntries
    streamResults,  \* the variable results of getOSLevelEntries
    streamError,    \* the message of the Error thrown
    \* ---- pipeline orchestrator ----
    pipeline,       \* the declared pipeline: [phases, tasks], tasks in every phase
    jobState,       \* "none" (no job), "Queued", "Running", "Finished" or "Aborted"
    phaseIndex,     \* the phase of the current task, from 1
    taskIndex,      \* the place of the current task in its phase, from 1
    pipelineResult, \* the result tree: per phase [name, tasks], per task
                    \* [params, output, errors]
    abortSignal,    \* whether the task last recorded issued the abort signal
    executed,       \* the execute calls made, in order: [phase, task, outcome]
    summary         \* what the result page shows of the result tree once rendered

taskVars == <<pc, params, context, issued, output, cbCalls, delivered, completed>>

parserVars == <<simctlString, parseState, simulatedDevices, parseError, createCalls>>

managerVars == <<config, simctlFails, manager, found>>

streamVars == <<streamLines, cursor, loop, currentOSLevel, streamResults,
                streamError>>

pipelineVars == <<pipeline, jobState, phaseIndex, taskIndex, pipelineResult,
                  abortSignal, executed, summary>>

vars == <<pc, params, context, issued, output, cbCalls, delivered, completed,
          simctlString, parseState, simulatedDevices, parseError, createCalls,
          config, simctlFails, manager, found,
          streamLines, cursor, loop, currentOSLevel, streamResults,
          streamError,
          pipeline, jobState, phaseIndex, taskIndex, pipelineResult,
          abortSignal, executed, summary>>

(***************************************************************************)
(* JavaScript values of the task model.  Command names, arguments, params  *)
(* and runner errors are atomic strings; a path is the sequence of its     *)
(* segments; an object is a function from its keys to their values, and a  *)
(* key that is absent reads as undefined.                                  *)
(***************************************************************************)
\* the error argument of a completion callback that reports no error
\* (async and the runner pass null or undefined: both are falsy)
null == "null"

\* `err` as async tests it: any value but the falsy one is an error
IsError(err) == err # null

\* `obj.key` used as a condition: the key is present and its value not ""
Truthy(obj, key) == key \in DOMAIN obj /\ obj[key] # ""

\* obj with obj[key] = value assigned (the key is added when absent)
Assign(obj, key, value) ==
    [k \in DOMAIN obj \cup {key} |-> IF k = key THEN value ELSE obj[k]]

\* path.join(dir, name) for a plain segment name
PathJoin(dir, name) == dir \o <<name>>

\* path.join(dir, a, b)
PathJoin3(dir, a, b) == PathJoin(PathJoin(dir, a), b)

\* the empty object {}
EmptyObject == [k \in {} |-> ""]

(***************************************************************************)
(* Inputs of execute                                                       *)
(***************************************************************************)
\* most stdout lines the runner delivers during one command
MaxStdout == 2

\* the data length execute's stdout handler takes for a revision line
RevisionLineLength == 41

\* the contexts the orchestrator may hand to a task; the last one already
\* carries keys of an earlier task
ContextChoices ==
    { [working_dir |-> <<"tmp", "job1">>, bin_dir |-> <<"opt", "bin">>],
      [working_dir |-> <<"tmp", "job2">>, bin_dir |-> <<"opt", "bin">>,
       device |-> <<"ios-simulator">>, checkout_root |-> <<"old">>] }

\* params already checked against validate(): checkout_url is present
ParamChoices ==
    { [checkout_url |-> "git://host/manifest"],
      [checkout_url |-> "git://host/manifest", branch |-> "dev"],
      [checkout_url |-> "git://host/manifest", branch |-> ""],
      [checkout_url |-> "git://host/manifest", manifest_file |-> "ios.xml"],
      [checkout_url |-> "git://host/manifest", branch |-> "dev",
       manifest_file |-> "ios.xml", project_root |-> "app"],
      [checkout_url |-> "git://host/manifest", project_root |-> "app"] }

\* the errors a command can complete with
RunnerErrors == {"exit code 1", "timeout"}

(***************************************************************************)
(* Strings as character sequences (0-based indexes, as in JavaScript)      *)
(***************************************************************************)
\* the characters String.prototype.trim strips, as far as inputs carry them
Whitespace == {" ", "\t", "\n", "\r"}

\* whether pat occurs in s at index i
OccursAt(s, pat, i) == \A j \in 1..Len(pat) : s[i + j] = pat[j]

\* s.indexOf(pat, from): the first index >= from where pat occurs, or -1
RECURSIVE IndexOfFrom(_, _, _)
IndexOfFrom(s, pat, from) ==
    IF from + Len(pat) > Len(s) THEN -1
    ELSE IF OccursAt(s, pat, from) THEN from
    ELSE IndexOfFrom(s, pat, from + 1)

\* s.indexOf(pat)
IndexOf(s, pat) == IndexOfFrom(s, pat, 0)

\* a slice index as String.prototype.slice resolves it
SliceIndex(s, i) ==
    IF i < 0 THEN (IF Len(s) + i < 0 THEN 0 ELSE Len(s) + i)
    ELSE (IF i > Len(s) THEN Len(s) ELSE i)

\* s.slice(start, end)
Slice(s, start, end) == SubSeq(s, SliceIndex(s, start) + 1, SliceIndex(s, end))

\* the position of the first character of s at or after i that trim keeps
RECURSIVE FirstKept(_, _)
FirstKept(s, i) ==
    IF i > Len(s) \/ s[i] \notin Whitespace THEN i ELSE FirstKept(s, i + 1)

\* the position of the last character of s at or before i that trim keeps
RECURSIVE LastKept(_, _)
LastKept(s, i) ==
    IF i < 1 \/ s[i] \notin Whitespace THEN i ELSE LastKept(s, i - 1)

\* s.trim()
Trim(s) == SubSeq(s, FirstKept(s, 1), LastKept(s, Len(s)))

\* s.split(sep) for a one-character separator
RECURSIVE Split(_, _)
Split(s, sep) ==
    LET at == IndexOf(s, <<sep>>)
    IN  IF at = -1 THEN <<s>>
        ELSE <<SubSeq(s, 1, at)>> \o Split(SubSeq(s, at + 2, Len(s)), sep)

\* n copies of the character c
Repeat(c, n) == [i \in 1..n |-> c]

(***************************************************************************)
(* tasks/javascript/repo-checkout.js                                       *)
(***************************************************************************)
\* the stdout data the runner may deliver while git rev-parse HEAD runs:
\* a 40-digit revision with its newline, the revision without newline, a
\* short line, and an indented 41-character line
StdoutData ==
    { Repeat("a", 40) \o <<"\n">>,
      Repeat("a", 40),
      <<"o", "k", "\n">>,
      <<" ">> \o Repeat("b", 39) \o <<"\n">> }

\* validate(): the parameter contract
validate ==
    [params |-> [checkout_url |-> "required", branch |-> "optional",
                 project_root |-> "optional", manifest_file |-> "optional"]]

\* an execute that hands on a fresh context holding only the keys it knows
SetRootsFresh(p, ctx) ==
    LET root == PathJoin(ctx.working_dir, "project")
    IN  [working_dir   |-> ctx.working_dir,
         bin_dir       |-> ctx.bin_dir,
         checkout_root |-> root,
         project_root  |-> IF Truthy(p, "project_root")
                           THEN PathJoin(root, p.project_root) ELSE root]

\* the two context assignments execute makes before any command
SetRoots(p, ctx) ==
    LET root == PathJoin(ctx.working_dir, "project")
        c1   == Assign(ctx, "checkout_root", root)
    IN  Assign(c1, "project_root",
               IF Truthy(p, "project_root")
               THEN PathJoin(c1.checkout_root, p.project_root)
               ELSE c1.checkout_root)

repoCmd(ctx) == PathJoin3(ctx.bin_dir, "repo", "repo")

\* first task of the series: mkdir -p <checkout_root>
MkdirCall(p, ctx) ==
    [cmd |-> <<"mkdir">>, args |-> <<"-p", ctx.checkout_root>>,
     options |-> EmptyObject]

\* second task: repo init -u <url> [-b <branch>] [-m <manifest>]
InitCall(p, ctx) ==
    [cmd |-> repoCmd(ctx),
     args |-> <<"init", "-u", p.checkout_url>>
              \o (IF Truthy(p, "branch") THEN <<"-b", p.branch>> ELSE <<>>)
              \o (IF Truthy(p, "manifest_file")
                  THEN <<"-m", p.manifest_file>> ELSE <<>>),
     options |-> [cwd |-> ctx.checkout_root]]

\* third task: repo sync -d -c --jobs=4
SyncCall(p, ctx) ==
    [cmd |-> repoCmd(ctx), args |-> <<"sync", "-d", "-c", "--jobs=4">>,
     options |-> [cwd |-> ctx.checkout_root]]

\* fourth task: git rev-parse HEAD, with a stdout handler
RevParseCall(p, ctx) ==
    [cmd |-> <<"git">>, args |-> <<"rev-parse", "HEAD">>,
     options |-> [stdout |-> "stdout", cwd |-> ctx.project_root]]

\* the stdout handler of the fourth task
stdout(out, data) ==
    IF Len(data) = RevisionLineLength
    THEN Assign(out, "version", Trim(data))
    ELSE out

\* what the completion callback given to exec hands to the series callback
\* cb: the first three tasks pass cb itself, the fourth calls cb()
\* a first task that keeps the error of mkdir to itself
MkdirCallbackSwallowed(err) == null

MkdirCallback(err) == err

InitCallback(err) == err

SyncCallbackSwallowed(err) == null

SyncCallback(err) == err

RevParseCallback(err) == null

\* a final callback that reports errors only
FinishOnErrorOnly(err) ==
    /\ cbCalls' = IF IsError(err)
                  THEN Append(cbCalls, [error |-> err, output |-> output])
                  ELSE cbCalls
    /\ pc' = "done"
    /\ UNCHANGED <<params, context, issued, output, delivered>>

\* the final callback of async.series
Finish(err) ==
    /\ cbCalls' = Append(cbCalls, [error |-> err, output |-> output])
    /\ pc' = "done"
    /\ UNCHANGED <<params, context, issued, output, delivered>>

\* async.series after a task called cb(err): an error ends the series with
\* the final callback, otherwise the next task runs (it issues its command)
\* or, after the last task, the final callback reports no error
SeriesNext(err, nextPc, nextCall) ==
    IF IsError(err) THEN Finish(err)
    ELSE IF nextPc = "done" THEN Finish(null)
    ELSE /\ issued' = Append(issued, nextCall)
         /\ pc' = nextPc
         /\ UNCHANGED <<params, context, output, cbCalls, delivered>>

\* execute(params, context, exec, callback), up to the first exec call
Execute(p) ==
    /\ pc = "idle"
    /\ params' = p
    /\ output' = EmptyObject
    /\ context' = SetRoots(p, context)
    /\ issued' = Append(issued, MkdirCall(p, context'))
    /\ pc' = "mkdir"
    /\ UNCHANGED <<cbCalls, delivered, completed>>

\* the runner completes mkdir
MkdirDone(err) ==
    /\ completed' = Append(completed, err)
    /\ pc = "mkdir"
    /\ SeriesNext(MkdirCallback(err), "init", InitCall(params, context))

\* the runner completes repo init
InitDone(err) ==
    /\ completed' = Append(completed, err)
    /\ pc = "init"
    /\ SeriesNext(InitCallback(err), "sync", SyncCall(params, context))

\* the runner completes repo sync
SyncDone(err) ==
    /\ completed' = Append(completed, err)
    /\ pc = "sync"
    /\ SeriesNext(SyncCallback(err), "revparse", RevParseCall(params, context))

\* the runner delivers one line of git's stdout
RevParseStdout(data) ==
    /\ pc = "revparse"
    /\ delivered < MaxStdout
    /\ output' = stdout(output, data)
    /\ delivered' = delivered + 1
    /\ UNCHANGED <<pc, params, context, issued, cbCalls, completed>>

\* the runner completes git rev-parse HEAD
RevParseDone(err) ==
    /\ completed' = Append(completed, err)
    /\ pc = "revparse"
    /\ SeriesNext(RevParseCallback(err), "done", <<>>)

\* before execute is called
TaskIdle ==
    /\ pc = "idle"
    /\ params = EmptyObject
    /\ issued = <<>>
    /\ output = EmptyObject
    /\ cbCalls = <<>>
    /\ delivered = 0
    /\ completed = <<>>

TaskInit ==
    /\ pc = "idle"
    /\ params = EmptyObject
    /\ context \in ContextChoices
    /\ issued = <<>>
    /\ output = EmptyObject
    /\ cbCalls = <<>>
    /\ delivered = 0
    /\ completed = <<>>

TaskNext ==
    \/ \E p \in ParamChoices : Execute(p)
    \/ \E err \in RunnerErrors \cup {null} : MkdirDone(err)
    \/ \E err \in RunnerErrors \cup {null} : InitDone(err)
    \/ \E err \in RunnerErrors \cup {null} : SyncDone(err)
    \/ \E data \in StdoutData : RevParseStdout(data)
    \/ \E err \in RunnerErrors \cup {null} : RevParseDone(err)

(***************************************************************************)
(* The device manager's parser of `xcrun simctl list` output.              *)
(* A call that may throw yields [threw |-> TRUE, error |-> message] or     *)
(* [threw |-> FALSE, value |-> ...]; an Error thrown by a callee is passed *)
(* on unchanged by its callers, none of which catches.                     *)
(***************************************************************************)
\* the value undefined among character sequences: a one-element sequence
\* whose element is no character
undefined == << "undefined" >>

\* undefined as string concatenation renders it
StrUndefined ==
    <<"u", "n", "d", "e", "f", "i", "n", "e", "d">>

\* the operand v of a string concatenation, converted to a string
ToStr(v) == IF v = undefined THEN StrUndefined ELSE v

\* the shortest identifier createDevice accepts
MinIdentifierLength == 10

StrUnavailable ==
    <<"u", "n", "a", "v", "a", "i", "l", "a", "b", "l", "e">>

StrDashes ==
    <<"-", "-">>

StrEquals ==
    <<"=", "=">>

StrDeviceTypes ==
    <<"=", "=", " ", "D", "e", "v", "i", "c", "e", " ", "T", "y", "p", "e",
      "s", " ", "=", "=">>

StrDevices ==
    <<"=", "=", " ", "D", "e", "v", "i", "c", "e", "s", " ", "=", "=">>

MsgFedUnavailable ==
    <<"c", "r", "e", "a", "t", "e", "D", "e", "v", "i", "c", "e", "-", "f",
      "e", "d", " ", "a", "n", " ", "u", "n", "a", "v", "a", "i", "l", "a",
      "b", "l", "e", " ", "d", "e", "v", "i", "c", "e", ":">>

MsgNoOpenParen ==
    <<"c", "r", "e", "a", "t", "e", "D", "e", "v", "i", "c", "e", ":", " ",
      "c", "o", "u", "l", "d", " ", "n", "o", "t", " ", "f", "i", "n", "d",
      " ", "o", "p", "e", "n", " ", "p", "a", "r", "e", "n", " ", "i", "n",
      ":", " ">>

MsgNoCloseParen ==
    <<"c", "r", "e", "a", "t", "e", "D", "e", "v", "i", "c", "e", ":", " ",
      "c", "o", "u", "l", "d", " ", "n", "o", "t", " ", "f", "i", "n", "d",
      " ", "c", "l", "o", "s", "e", " ", "p", "a", "r", "e", "n", " ", "i",
      "n", ":", " ">>

MsgNoIdentifier ==
    <<"c", "r", "e", "a", "t", "e", "D", "e", "v", "i", "c", "e", ":", " ",
      "c", "o", "u", "l", "d", " ", "n", "o", "t", " ", "f", "i", "n", "d",
      " ", "v", "a", "l", "i", "d", " ", "i", "d", "e", "n", "t", "i", "f",
      "i", "e", "r", " ", "i", "n", ":">>

MsgAdvanceEnd ==
    <<"u", "n", "e", "x", "p", "e", "c", "t", "e", "d", " ", "e", "n", "d",
      " ", "w", "h", "i", "l", "e", " ", "a", "d", "v", "a", "n", "c", "i",
      "n", "g", "T", "i", "l", "l", "M", "a", "t", "c", "h", ":">>

MsgNextValueEnd ==
    <<"u", "n", "e", "x", "p", "e", "c", "t", "e", "d", " ", "e", "n", "d",
      " ", "d", "u", "r", "i", "n", "g", " ", "n", "e", "x", "t", "V", "a",
      "l", "u", "e", "(", ")">>

MsgNoOSLevelPrefix ==
    <<"e", "x", "p", "e", "c", "t", "e", "d", " ", "o", "s", "l", "e", "v",
      "e", "l", " ", "p", "r", "e", "f", "i", "x", " ", "o", "f", " ", "\"",
      "-", "-", "\"", " ", "i", "n", ":">>

StrTagPrefix ==
    <<"i", "o", "s", "-", "s", "i", "m", "u", "l", "a", "t", "o", "r", ",",
      "O", "S", "=">>

StrNameSep ==
    <<",", "n", "a", "m", "e", "=">>

StrNamePrefix ==
    <<"i", "o", "s", "-", "s", "i", "m", "u", "l", "a", "t", "o", "r", " ">>

StrDestPrefix ==
    <<"O", "S", "=">>

Throw(message) == [threw |-> TRUE, error |-> message]

Return(v) == [threw |-> FALSE, value |-> v]

\* s.indexOf(pat) !== -1
Includes(s, pat) == IndexOf(s, pat) # -1

\* the test on the identifier that createDevice lets pass
ValidIdentifierAny(identifier) == TRUE

ValidIdentifier(identifier) == Len(identifier) >= MinIdentifierLength

\* oslevel.split(' ')[1]
OSVersion(oslevel) ==
    LET tokens == Split(oslevel, " ")
    IN  IF Len(tokens) >= 2 THEN tokens[2] ELSE undefined

\* a tag that leaves the version out
DeviceTagWithoutVersion(osVersion, name) == StrTagPrefix \o StrNameSep \o name

\* the tag, name and destination fields of the object createDevice returns
DeviceTag(osVersion, name) ==
    StrTagPrefix \o ToStr(osVersion) \o StrNameSep \o name

\* the name as createDevice's comment gives it, without the version
DeviceNameAsDocumented(osVersion, name) == StrNamePrefix \o name

DeviceName(osVersion, name) ==
    StrNamePrefix \o name \o <<" ", "(">> \o ToStr(osVersion) \o <<")">>

DeviceDestination(osVersion, name) ==
    StrDestPrefix \o ToStr(osVersion) \o StrNameSep \o name

\* createDevice(oslevel, line)
createDevice(oslevel, line) ==
    LET openParenIndex  == IndexOf(line, <<"(">>)
        closeParenIndex == IndexOf(line, <<")">>)
        identifier      == Slice(line, openParenIndex + 1, closeParenIndex)
        name            == Trim(Slice(line, 0, openParenIndex))
        osVersion       == OSVersion(oslevel)
    IN  IF Includes(line, StrUnavailable)
        THEN Throw(MsgFedUnavailable \o oslevel \o <<":">> \o line)
        ELSE IF openParenIndex = -1
        THEN Throw(MsgNoOpenParen \o oslevel \o <<":">> \o line)
        ELSE IF closeParenIndex = -1
        THEN Throw(MsgNoCloseParen \o oslevel \o <<":">> \o line)
        ELSE IF ~ValidIdentifier(identifier)
        THEN Throw(MsgNoIdentifier \o oslevel \o <<":">> \o line)
        ELSE Return(
            [tag         |-> DeviceTag(osVersion, name),
             platform    |-> "ios",
             identifier  |-> identifier,
             name        |-> DeviceName(osVersion, name),
             OS          |-> oslevel,
             simulator   |-> TRUE,
             destination |-> DeviceDestination(osVersion, name)])

\* isHeader(line)
isHeader(line) ==
    LET snippet == Slice(line, 0, 2)
    IN  snippet = StrDashes \/ snippet = StrEquals

(***************************************************************************)
(* makeSimctlStream(lines): the stream is the array with the cursor        *)
(* nextIndex (0-based); each method takes the cursor and, when it moves    *)
(* it, yields the new one as nextIndex.                                    *)
(***************************************************************************)
hasMore(lines, nextIndex) == nextIndex < Len(lines)

peek(lines, nextIndex) ==
    IF nextIndex < Len(lines) THEN lines[nextIndex + 1] ELSE undefined

\* a next() that leaves the cursor where it is
nextWithoutMove(lines, nextIndex) ==
    IF hasMore(lines, nextIndex)
    THEN [value |-> lines[nextIndex + 1], done |-> FALSE,
          nextIndex |-> nextIndex]
    ELSE [done |-> TRUE, nextIndex |-> nextIndex]

\* next(): {value, done: false} and the cursor moved on, or {done: true}
next(lines, nextIndex) ==
    IF hasMore(lines, nextIndex)
    THEN [value |-> lines[nextIndex + 1], done |-> FALSE,
          nextIndex |-> nextIndex + 1]
    ELSE [done |-> TRUE, nextIndex |-> nextIndex]

\* advanceTillMatch(line): the cursor after the first line, at or after
\* the cursor, that starts with `line`
RECURSIVE advanceTillMatch(_, _, _)
advanceTillMatch(lines, nextIndex, line) ==
    LET result == next(lines, nextIndex)
    IN  IF ~result.done /\ Slice(result.value, 0, Len(line)) # line
        THEN advanceTillMatch(lines, result.nextIndex, line)
        ELSE IF result.done
        THEN Throw(MsgAdvanceEnd \o line)
        ELSE [threw |-> FALSE, nextIndex |-> result.nextIndex]

nextValue(lines, nextIndex) ==
    LET result == next(lines, nextIndex)
    IN  IF result.done THEN Throw(MsgNextValueEnd)
        ELSE [threw |-> FALSE, value |-> result.value,
              nextIndex |-> result.nextIndex]

nextValueAsOSLevel(lines, nextIndex) ==
    LET r == nextValue(lines, nextIndex)
    IN  IF r.threw THEN r
        ELSE IF IndexOf(r.value, StrDashes) # 0
        THEN Throw(MsgNoOSLevelPrefix \o r.value)
        ELSE LET sliceStart == 2
                 sliceEnd   == IndexOfFrom(r.value, StrDashes, 2)
             IN  [threw |-> FALSE,
                  value |-> Trim(Slice(r.value, sliceStart, sliceEnd)),
                  nextIndex |-> r.nextIndex]

peekIsHeader(lines, nextIndex) ==
    hasMore(lines, nextIndex) /\ isHeader(peek(lines, nextIndex))

peekHasNextLineEntry(lines, nextIndex) ==
    hasMore(lines, nextIndex) /\ ~peekIsHeader(lines, nextIndex)

\* a stream that never sees the next top-level section
peekIsDoubleEqualsNever(lines, nextIndex) == FALSE

peekIsDoubleEquals(lines, nextIndex) ==
    IndexOf(peek(lines, nextIndex), StrEquals) = 0

\* whether getOSLevelEntries hands a device entry line to createDevice
KeepsEntryAlways(line) == TRUE

KeepsEntry(line) == ~Includes(line, StrUnavailable)

(***************************************************************************)
(* getOSLevelEntries(stream): OSLevelLoop is its outer while loop at the   *)
(* cursor with `results` collected so far, EntryLoop its inner one under   *)
(* the label oslevel.  `calls` lists the createDevice calls made.          *)
(***************************************************************************)
RECURSIVE OSLevelLoop(_, _, _, _)
RECURSIVE EntryLoop(_, _, _, _, _)
EntryLoop(lines, nextIndex, oslevel, results, calls) ==
    IF peekHasNextLineEntry(lines, nextIndex)
    THEN LET r == nextValue(lines, nextIndex)
         IN  IF KeepsEntry(r.value)
             THEN LET d    == createDevice(oslevel, r.value)
                      made == Append(calls, [oslevel |-> oslevel,
                                             line |-> r.value,
                                             index |-> nextIndex])
                  IN  IF d.threw
                      THEN [threw |-> TRUE, error |-> d.error, calls |-> made]
                      ELSE EntryLoop(lines, r.nextIndex, oslevel,
                                     Append(results, d.value), made)
             ELSE EntryLoop(lines, r.nextIndex, oslevel, results, calls)
    ELSE OSLevelLoop(lines, nextIndex, results, calls)

OSLevelLoop(lines, nextIndex, results, calls) ==
    IF hasMore(lines, nextIndex) /\ ~peekIsDoubleEquals(lines, nextIndex)
    THEN LET o == nextValueAsOSLevel(lines, nextIndex)
         IN  IF o.threw
             THEN [threw |-> TRUE, error |-> o.error, calls |-> calls]
             ELSE EntryLoop(lines, o.nextIndex, o.value, results, calls)
    ELSE [threw |-> FALSE, value |-> results, calls |-> calls]

getOSLevelEntries(lines, nextIndex) == OSLevelLoop(lines, nextIndex, <<>>, <<>>)

\* the parser without the first advanceTillMatch
getSimulatedDevicesFromDevicesHeader(lines) ==
    LET section == advanceTillMatch(lines, 0, StrDevices)
    IN  IF section.threw
        THEN [threw |-> TRUE, error |-> section.error, calls |-> <<>>]
        ELSE getOSLevelEntries(lines, section.nextIndex)

getSimulatedDevicesFromLines(lines) ==
    LET types == advanceTillMatch(lines, 0, StrDeviceTypes)
    IN  IF types.threw
        THEN [threw |-> TRUE, error |-> types.error, calls |-> <<>>]
        ELSE LET section == advanceTillMatch(lines, types.nextIndex, StrDevices)
             IN  IF section.threw
                 THEN [threw |-> TRUE, error |-> section.error, calls |-> <<>>]
                 ELSE getOSLevelEntries(lines, section.nextIndex)

getSimulatedDevices(simctl) == getSimulatedDevicesFromLines(Split(simctl, "\n"))

(***************************************************************************)
(* Listings given to the parser                                            *)
(***************************************************************************)
\* most lines drawn freely after the fixed opening lines of a listing
MaxBody == 2

\* an empty line
LineEmpty ==
    <<>>

\* the section headers
LineDeviceTypes ==
    <<"=", "=", " ", "D", "e", "v", "i", "c", "e", " ", "T", "y", "p", "e",
      "s", " ", "=", "=">>

LineDevices ==
    <<"=", "=", " ", "D", "e", "v", "i", "c", "e", "s", " ", "=", "=">>

LinePairs ==
    <<"=", "=", " ", "D", "e", "v", "i", "c", "e", " ", "P", "a", "i", "r",
      "s", " ", "=", "=">>

\* an OS-level header
LineOS ==
    <<"-", "-", " ", "i", "O", "S", " ", "9", ".", "1", " ", "-", "-">>

\* an OS-level header of another platform with the same version
LineOSTv ==
    <<"-", "-", " ", "t", "v", "O", "S", " ", "9", ".", "1", " ", "-", "-">>

\* an OS-level header of the same platform with another version
LineOSOlder ==
    <<"-", "-", " ", "i", "O", "S", " ", "8", ".", "4", " ", "-", "-">>

\* an OS-level header without its closing "--"
LineOSUnclosed ==
    <<"-", "-", " ", "i", "O", "S", " ", "9", ".", "1">>

\* an OS-level header whose label has no version
LineOSNoVersion ==
    <<"-", "-", " ", "i", "O", "S", " ", "-", "-">>

\* a device entry
LineDevice ==
    <<"i", "P", "h", "o", "n", "e", " ", "4", "s", " ", "(", "0", "5", "6",
      "8", "6", "2", "4", "3", "-", "B", "A", "2", "4", "-", "4", "4", "C",
      "E", "-", "9", "4", "D", "9", "-", "D", "6", "8", "2", "3", "B", "F",
      "9", "6", "E", "4", "6", ")", " ", "(", "S", "h", "u", "t", "d", "o",
      "w", "n", ")">>

\* a device entry with an identifier of 10 characters
LineDevice10 ==
    <<"i", "P", "a", "d", " ", "2", " ", "(", "0", "1", "2", "3", "4", "5",
      "6", "7", "8", "9", ")", " ", "(", "B", "o", "o", "t", "e", "d", ")">>

\* an unavailable device entry
LineUnavailable ==
    <<"i", "P", "h", "o", "n", "e", " ", "5", " ", "(", "A", "B", "C", "D",
      "E", "F", "0", "1", "2", "3", "4", "5", "6", ")", " ", "(", "S", "h",
      "u", "t", "d", "o", "w", "n", ")", " ", "(", "u", "n", "a", "v", "a",
      "i", "l", "a", "b", "l", "e", ",", " ", "r", "u", "n", "t", "i", "m",
      "e", " ", "p", "r", "o", "f", "i", "l", "e", " ", "n", "o", "t", " ",
      "f", "o", "u", "n", "d", ")">>

\* a device entry without "("
LineNoOpenParen ==
    <<"i", "P", "h", "o", "n", "e", " ", "6", " ", "0", "1", "2", "3", "4",
      "5", "6", "7", "8", "9", ")">>

\* a device entry without ")"
LineNoCloseParen ==
    <<"i", "P", "h", "o", "n", "e", " ", "6", " ", "(", "0", "1", "2", "3",
      "4", "5", "6", "7", "8", "9">>

\* a device entry with an identifier of 9 characters
LineShortId ==
    <<"i", "P", "h", "o", "n", "e", " ", "6", " ", "(", "1", "2", "3", "4",
      "5", "6", "7", "8", "9", ")", " ", "(", "S", "h", "u", "t", "d", "o",
      "w", "n", ")">>

\* the lines a listing body is made of
BodyLines ==
    { LineEmpty, LinePairs, LineOS, LineOSUnclosed, LineOSNoVersion,
      LineDevice, LineDevice10, LineUnavailable, LineNoOpenParen,
      LineNoCloseParen, LineShortId }

\* the opening lines of a listing: with and without the two section
\* headers, in and out of order, with entries in a skipped section, and
\* with a first device already listed, and with one device listed under
\* three OS levels
Openings ==
    { <<>>,
      <<LineDeviceTypes>>,
      <<LineDevices>>,
      <<LineDevices, LineDeviceTypes>>,
      <<LineDeviceTypes, LineDevices>>,
      <<LineDeviceTypes, LineOS, LineDevice, LineDevices>>,
      <<LineOS, LineDevice10, LineDevices, LineDeviceTypes, LinePairs,
        LineDevices>>,
      <<LineDeviceTypes, LineDevices, LineOS, LineDevice>>,
      <<LineDeviceTypes, LineDevices, LineOSTv, LineDevice, LineOSOlder,
        LineDevice, LineOS>> }

Bodies == UNION { [1..n -> BodyLines] : n \in 0..MaxBody }

\* the lines joined by newlines, as the listing command prints them
RECURSIVE JoinLines(_)
JoinLines(lines) ==
    IF Len(lines) = 0 THEN <<>>
    ELSE IF Len(lines) = 1 THEN lines[1]
    ELSE lines[1] \o <<"\n">> \o JoinLines(Tail(lines))

Listings == { opening \o body : opening \in Openings, body \in Bodies }

SimctlOutputs == { JoinLines(lines) : lines \in Listings }

(***************************************************************************)
(* Running the parser                                                      *)
(***************************************************************************)
\* var simulatedDevices = getSimulatedDevices(simctlData), run to its end
GetSimulatedDevices ==
    /\ parseState = "ready"
    /\ \E r \in {getSimulatedDevices(simctlString)} :
           /\ parseState' = IF r.threw THEN "threw" ELSE "returned"
           /\ simulatedDevices' = IF r.threw THEN <<>> ELSE r.value
           /\ parseError' = IF r.threw THEN r.error ELSE <<>>
           /\ createCalls' = r.calls
    /\ UNCHANGED simctlString

ParserIdle ==
    /\ parseState = "ready"
    /\ simulatedDevices = <<>>
    /\ parseError = <<>>
    /\ createCalls = <<>>

(***************************************************************************)
(* DeviceManager: the registry of configured and simulated devices.        *)
(* devicesByTag, a Map, is a function from the tags set so far.            *)
(***************************************************************************)
\* most findByTag calls followed on one manager
MaxLookups == 1

\* new Device(json): the record of a descriptor, taken as it is
Device(json) == json

\* what findByTag returns for a tag the map does not hold
nullDevice == [tag |-> <<>>, platform |-> "null"]

\* Array.isArray(config.devices) ? config.devices : []
configDevices(cfg) == IF "devices" \in DOMAIN cfg THEN cfg.devices ELSE <<>>

\* the simulated devices ahead of the configured ones
allDevicesSimulatedFirst(configured, simulated) == simulated \o configured

\* configDevices.concat(simulatedDevices)
allDevices(configured, simulated) == configured \o simulated

\* devicesByTag.set(tag, device)
MapSet(map, tag, device) ==
    [t \in DOMAIN map \cup {tag} |-> IF t = tag THEN device ELSE map[t]]

\* the new Map()
EmptyMap == [t \in {} |-> nullDevice]

\* allDevices.forEach(...) from element i on, applied to [devicesByTag, devices]
RECURSIVE forEachDevice(_, _, _)
forEachDevice(all, i, m) ==
    IF i > Len(all) THEN m
    ELSE LET device == Device(all[i])
         IN  forEachDevice(all, i + 1,
                 [devicesByTag |-> MapSet(m.devicesByTag, device.tag, device),
                  devices      |-> Append(m.devices, device)])

\* DeviceManager.prototype.findByTag
findByTag(m, tag) ==
    IF tag \in DOMAIN m.devicesByTag THEN m.devicesByTag[tag] ELSE nullDevice

\* a constructor that registers the configured devices before it asks for the
\* listing, and so keeps them when the listing fails
DeviceManagerConfiguredFirst ==
    /\ manager.state = "none"
    /\ LET early == forEachDevice(configDevices(config), 1,
                         [devicesByTag |-> EmptyMap, devices |-> <<>>])
       IN  IF simctlFails
           THEN /\ manager' = [state |-> "failed",
                               devicesByTag |-> early.devicesByTag,
                               devices |-> early.devices]
                /\ UNCHANGED <<parseState, simulatedDevices, parseError, createCalls>>
           ELSE \E r \in {getSimulatedDevices(simctlString)} :
                /\ parseState' = IF r.threw THEN "threw" ELSE "returned"
                /\ simulatedDevices' = IF r.threw THEN <<>> ELSE r.value
                /\ parseError' = IF r.threw THEN r.error ELSE <<>>
                /\ createCalls' = r.calls
                /\ manager' =
                     LET m == forEachDevice(IF r.threw THEN <<>> ELSE r.value,
                                            1, early)
                     IN  [state |-> IF r.threw THEN "failed" ELSE "built",
                          devicesByTag |-> m.devicesByTag,
                          devices |-> m.devices]
    /\ UNCHANGED <<simctlString, config, simctlFails, found>>

\* the constructor, to its end: it throws when the listing command fails
\* (getSimctlData) or the listing does not parse, before any device is set
DeviceManager ==
    /\ manager.state = "none"
    /\ IF simctlFails
       THEN /\ manager' = [manager EXCEPT !.state = "failed"]
            /\ UNCHANGED <<parseState, simulatedDevices, parseError, createCalls>>
       ELSE \E r \in {getSimulatedDevices(simctlString)} :
            /\ parseState' = IF r.threw THEN "threw" ELSE "returned"
            /\ simulatedDevices' = IF r.threw THEN <<>> ELSE r.value
            /\ parseError' = IF r.threw THEN r.error ELSE <<>>
            /\ createCalls' = r.calls
            /\ manager' =
                 IF r.threw THEN [manager EXCEPT !.state = "failed"]
                 ELSE LET m == forEachDevice(
                                   allDevices(configDevices(config), r.value), 1,
                                   [devicesByTag |-> EmptyMap, devices |-> <<>>])
                      IN  [state |-> "built",
                           devicesByTag |-> m.devicesByTag,
                           devices |-> m.devices]
    /\ UNCHANGED <<simctlString, config, simctlFails, found>>

\* a job looks a device up
FindByTag(tag) ==
    /\ manager.state = "built"
    /\ Len(found) < MaxLookups
    /\ found' = Append(found, [tag |-> tag, result |-> findByTag(manager, tag)])
    /\ UNCHANGED <<simctlString, parseState, simulatedDevices, parseError,
                   createCalls, config, simctlFails, manager>>

ManagerIdle ==
    /\ manager = [state |-> "none", devicesByTag |-> EmptyMap, devices |-> <<>>]
    /\ found = <<>>

(***************************************************************************)
(* Inputs of the device manager                                            *)
(***************************************************************************)
\* the tag of the simulated iPhone 4s under iOS 9.1
TagDevice ==
    <<"i", "o", "s", "-", "s", "i", "m", "u", "l", "a", "t", "o", "r", ",",
      "O", "S", "=", "9", ".", "1", ",", "n", "a", "m", "e", "=", "i", "P",
      "h", "o", "n", "e", " ", "4", "s">>

\* the tag of the simulated iPad 2 under iOS 9.1
TagDevice10 ==
    <<"i", "o", "s", "-", "s", "i", "m", "u", "l", "a", "t", "o", "r", ",",
      "O", "S", "=", "9", ".", "1", ",", "n", "a", "m", "e", "=", "i", "P",
      "a", "d", " ", "2">>

\* the tag of a configured physical device
TagPhysical ==
    <<"i", "o", "s", "-", "d", "e", "v", "i", "c", "e", ",", "n", "a", "m",
      "e", "=", "l", "a", "b", " ", "p", "h", "o", "n", "e">>

\* a tag no device carries
TagUnknown ==
    <<"a", "n", "d", "r", "o", "i", "d", ",", "n", "a", "m", "e", "=", "n",
      "e", "x", "u", "s">>

\* identifiers of configured devices
IdPhysical ==
    <<"c", "0", "f", "f", "e", "e", "0", "1", "2", "3", "4", "5", "6", "7",
      "8", "9">>

IdConfigured ==
    <<"C", "O", "N", "F", "I", "G", "U", "R", "E", "D", "-", "I", "P", "H",
      "O", "N", "E", "-", "4", "S">>

IdConfiguredOther ==
    <<"C", "O", "N", "F", "I", "G", "U", "R", "E", "D", "-", "S", "E", "C",
      "O", "N", "D">>

\* a second entry with the name of LineDevice
LineDeviceTwin ==
    <<"i", "P", "h", "o", "n", "e", " ", "4", "s", " ", "(", "A", "A", "A",
      "A", "A", "A", "A", "A", "-", "0", "0", "0", "0", "-", "1", "1", "1",
      "1", "-", "2", "2", "2", "2", "-", "3", "3", "3", "3", "3", "3", "3",
      "3", "3", "3", "3", "3", ")", " ", "(", "B", "o", "o", "t", "e", "d",
      ")">>

PhysicalDevice ==
    [tag |-> TagPhysical, platform |-> "ios", identifier |-> IdPhysical,
     name |-> TagPhysical, simulator |-> FALSE]

\* configured under the tag of a simulated device
ConfiguredSimulator ==
    [tag |-> TagDevice, platform |-> "ios", identifier |-> IdConfigured,
     name |-> TagDevice, simulator |-> TRUE]

ConfiguredSimulatorOther ==
    [tag |-> TagDevice, platform |-> "ios", identifier |-> IdConfiguredOther,
     name |-> TagDevice, simulator |-> TRUE]

\* config without devices, and with device lists
ConfigChoices ==
    { [port |-> 3000],
      [devices |-> <<>>],
      [devices |-> <<PhysicalDevice>>],
      [devices |-> <<ConfiguredSimulator, PhysicalDevice>>],
      [devices |-> <<ConfiguredSimulator, ConfiguredSimulatorOther>>] }

\* the entries listed under one OS level in the manager's listings
ManagerLines ==
    { LineDevice, LineDevice10, LineDeviceTwin, LineUnavailable, LineShortId }

ManagerListings ==
    { <<LineDeviceTypes, LineDevices, LineOS>> \o body \o <<LinePairs>> :
        body \in UNION { [1..n -> ManagerLines] : n \in 0..MaxBody } }

ManagerOutputs == { JoinLines(lines) : lines \in ManagerListings }

\* the tags jobs ask for
LookupTags == { TagDevice, TagDevice10, TagPhysical, TagUnknown, <<>> }


(***************************************************************************)
(* getSimulatedDevicesFromLines step by step: one action per iteration of  *)
(* the loops of advanceTillMatch and getOSLevelEntries, and one per loop    *)
(* exit, over the stream's cursor                                          *)
(***************************************************************************)
\* an advanceTillMatch that has not matched `line` yet: one pass of its
\* do-while loop, and the throw that follows when the stream is done
AdvanceStep(at, line, after) ==
    /\ loop = at
    /\ LET result == next(streamLines, cursor)
       IN  /\ cursor' = result.nextIndex
           /\ IF result.done
              THEN /\ loop' = "threw"
                   /\ streamError' = MsgAdvanceEnd \o line
              ELSE /\ loop' = IF Slice(result.value, 0, Len(line)) # line
                              THEN at ELSE after
                   /\ UNCHANGED streamError
    /\ UNCHANGED <<simctlString, streamLines, currentOSLevel, streamResults>>

\* stream.advanceTillMatch('== Device Types ==')
SkipToDeviceTypes == AdvanceStep("types", StrDeviceTypes, "devices")

\* stream.advanceTillMatch('== Devices ==')
SkipToDevices == AdvanceStep("devices", StrDevices, "oslevel")

\* the test of the outer loop of getOSLevelEntries
OSLevelLoopTest ==
    hasMore(streamLines, cursor) /\ ~peekIsDoubleEquals(streamLines, cursor)

\* one pass of the outer loop, up to its inner loop
OSLevelStep ==
    /\ loop = "oslevel"
    /\ OSLevelLoopTest
    /\ LET o == nextValueAsOSLevel(streamLines, cursor)
       IN  /\ cursor' = next(streamLines, cursor).nextIndex
           /\ IF o.threw
              THEN /\ loop' = "threw"
                   /\ streamError' = o.error
                   /\ UNCHANGED currentOSLevel
              ELSE /\ loop' = "entry"
                   /\ currentOSLevel' = o.value
                   /\ UNCHANGED streamError
    /\ UNCHANGED <<simctlString, streamLines, streamResults>>

\* the outer loop ends: return results
OSLevelExit ==
    /\ loop = "oslevel"
    /\ ~OSLevelLoopTest
    /\ loop' = "returned"
    /\ UNCHANGED <<simctlString, streamLines, cursor, currentOSLevel,
                   streamResults, streamError>>

\* one pass of the inner loop
EntryStep ==
    /\ loop = "entry"
    /\ peekHasNextLineEntry(streamLines, cursor)
    /\ LET r == nextValue(streamLines, cursor)
       IN  /\ cursor' = r.nextIndex
           /\ IF KeepsEntry(r.value)
              THEN \E d \in {createDevice(currentOSLevel, r.value)} :
                   IF d.threw
                   THEN /\ loop' = "threw"
                        /\ streamError' = d.error
                        /\ UNCHANGED streamResults
                   ELSE /\ streamResults' = Append(streamResults, d.value)
                        /\ UNCHANGED <<loop, streamError>>
              ELSE UNCHANGED <<loop, streamResults, streamError>>
    /\ UNCHANGED <<simctlString, streamLines, currentOSLevel>>

\* the inner loop ends: back to the test of the outer loop
EntryExit ==
    /\ loop = "entry"
    /\ ~peekHasNextLineEntry(streamLines, cursor)
    /\ loop' = "oslevel"
    /\ UNCHANGED <<simctlString, streamLines, cursor, currentOSLevel,
                   streamResults, streamError>>

\* no stream
StreamIdle ==
    /\ loop = "none"
    /\ streamLines = <<>>
    /\ cursor = 0
    /\ currentOSLevel = <<>>
    /\ streamResults = <<>>
    /\ streamError = <<>>

\* makeSimctlStream(simctlString.split('\n')), at the first advanceTillMatch
StreamInit ==
    /\ simctlString \in SimctlOutputs
    /\ streamLines = Split(simctlString, "\n")
    /\ loop = "types"
    /\ cursor = 0
    /\ currentOSLevel = <<>>
    /\ streamResults = <<>>
    /\ streamError = <<>>

StreamStep ==
    \/ SkipToDeviceTypes
    \/ SkipToDevices
    \/ OSLevelStep
    \/ OSLevelExit
    \/ EntryStep
    \/ EntryExit

(***************************************************************************)
(* The pipeline orchestrator and the summary the result page shows         *)
(***************************************************************************)
\* the most phases a declared pipeline has, and the most tasks a phase has
MaxPhases == 2

MaxTasks == 2

\* the declared pipelines: the number of phases, and of tasks in each phase
PipelineChoices ==
    { [phases |-> p, tasks |-> t] : p \in 1..MaxPhases, t \in 1..MaxTasks }

\* the params a declared task is given: with and without the required one
TaskParamChoices == { [checkout_url |-> "git://host/manifest"], EmptyObject }

\* the required parameters of the task's descriptor missing from p
MissingParams(p) ==
    { k \in DOMAIN validate.params :
          validate.params[k] = "required" /\ ~Truthy(p, k) }

\* what execute can hand back: success, a failure with the output produced
\* before it, and a failure carrying the abort signal
TaskOutcomes ==
    { [output |-> EmptyObject, errors |-> <<>>, abort |-> FALSE],
      [output |-> [version |-> "rev"], errors |-> <<"exit code 1">>,
       abort |-> FALSE],
      [output |-> EmptyObject, errors |-> <<"abort">>, abort |-> TRUE] }

\* the outcome of a task whose params fail validation: execute is not called
ValidationFailure ==
    [output |-> EmptyObject, errors |-> <<"missing required parameter">>,
     abort |-> FALSE]

\* the Task Result recorded for params p and outcome o
TaskResult(p, o) == [params |-> p, output |-> o.output, errors |-> o.errors]

PhaseName(i) == IF i = 1 THEN "phase 1" ELSE "later phase"

\* the result tree with the Task Result r recorded in phase i
Record(tree, i, r) ==
    IF i > Len(tree)
    THEN Append(tree, [name |-> PhaseName(i), tasks |-> <<r>>])
    ELSE [tree EXCEPT ![i].tasks = Append(@, r)]

\* an orchestrator that takes no abort signal
AbortsPipelineNever(o) == FALSE

\* whether the outcome abandons the rest of the pipeline
AbortsPipeline(o) == o.abort

\* a worker takes the queued job
StartJob ==
    /\ jobState = "Queued"
    /\ jobState' = "Running"
    /\ phaseIndex' = 1
    /\ taskIndex' = 1
    /\ UNCHANGED <<pipeline, pipelineResult, abortSignal, executed, summary>>

\* the task at (phaseIndex, taskIndex): validate, execute unless validation
\* fails, record the Task Result
RunTask(p, o) ==
    /\ jobState = "Running"
    /\ ~abortSignal
    /\ phaseIndex <= pipeline.phases
    /\ IF Len(pipelineResult) < phaseIndex THEN TRUE
       ELSE Len(pipelineResult[phaseIndex].tasks) < taskIndex
    /\ LET valid   == MissingParams(p) = {}
           outcome == IF valid THEN o ELSE ValidationFailure
       IN  /\ executed' = IF valid
                          THEN Append(executed, [phase |-> phaseIndex,
                                                 task |-> taskIndex,
                                                 outcome |-> o])
                          ELSE executed
           /\ pipelineResult' =
                  Record(pipelineResult, phaseIndex, TaskResult(p, outcome))
           /\ abortSignal' = AbortsPipeline(outcome)
    /\ UNCHANGED <<pipeline, jobState, phaseIndex, taskIndex, summary>>

\* between tasks: the abort signal ends the job, otherwise the next task,
\* the next phase, or the end of the pipeline follows
Advance ==
    /\ jobState = "Running"
    /\ Len(pipelineResult) = phaseIndex
    /\ Len(pipelineResult[phaseIndex].tasks) = taskIndex
    /\ IF abortSignal
       THEN jobState' = "Aborted" /\ UNCHANGED <<phaseIndex, taskIndex>>
       ELSE IF taskIndex < pipeline.tasks
       THEN /\ taskIndex' = taskIndex + 1
            /\ UNCHANGED <<jobState, phaseIndex>>
       ELSE IF phaseIndex < pipeline.phases
       THEN /\ phaseIndex' = phaseIndex + 1
            /\ taskIndex' = 1
            /\ UNCHANGED jobState
       ELSE jobState' = "Finished" /\ UNCHANGED <<phaseIndex, taskIndex>>
    /\ UNCHANGED <<pipeline, pipelineResult, abortSignal, executed, summary>>

\* a task variant that is marked whenever it has an errors list
ShowsTaskErrorWhenListed(task) == "errors" \in DOMAIN task

\* the template's test for the class task-error and the Errors block
ShowsTaskError(task) == "errors" \in DOMAIN task /\ Len(task.errors) > 0

\* the template's test for the Output block
ShowsOutput(task) == DOMAIN task.output # {}

\* what the summary tab shows of the result tree: per phase its name and
\* per task the class, the params keys, and the Output and Errors blocks
RenderSummary(tree) ==
    [i \in 1..Len(tree) |->
        [name  |-> tree[i].name,
         tasks |-> [j \in 1..Len(tree[i].tasks) |->
             LET task == tree[i].tasks[j]
             IN  [taskError |-> ShowsTaskError(task),
                  params    |-> DOMAIN task.params,
                  output    |-> IF ShowsOutput(task)
                                THEN task.output ELSE EmptyObject,
                  errors    |-> IF ShowsTaskError(task)
                                THEN task.errors ELSE <<>>]]]]

\* the result page of an ended job is rendered
Render ==
    /\ jobState \in {"Finished", "Aborted"}
    /\ summary = <<>>
    /\ summary' = RenderSummary(pipelineResult)
    /\ UNCHANGED <<pipeline, jobState, phaseIndex, taskIndex, pipelineResult,
                   abortSignal, executed>>

\* no job
PipelineIdle ==
    /\ jobState = "none"
    /\ pipeline = [phases |-> 0, tasks |-> 0]
    /\ phaseIndex = 0
    /\ taskIndex = 0
    /\ pipelineResult = <<>>
    /\ abortSignal = FALSE
    /\ executed = <<>>
    /\ summary = <<>>

\* a job is queued
PipelineInit ==
    /\ jobState = "Queued"
    /\ pipeline \in PipelineChoices
    /\ phaseIndex = 0
    /\ taskIndex = 0
    /\ pipelineResult = <<>>
    /\ abortSignal = FALSE
    /\ executed = <<>>
    /\ summary = <<>>

PipelineStep ==
    \/ StartJob
    \/ \E p \in TaskParamChoices, o \in TaskOutcomes : RunTask(p, o)
    \/ Advance
    \/ Render
(***************************************************************************)
(* Specifications                                                          *)
(***************************************************************************)
NoManager == config = EmptyObject /\ simctlFails = FALSE /\ ManagerIdle

\* one execute call of the repo-checkout task
Init ==
    /\ TaskInit
    /\ simctlString = <<>>
    /\ ParserIdle
    /\ NoManager
    /\ StreamIdle
    /\ PipelineIdle

Next ==
    /\ TaskNext
    /\ UNCHANGED parserVars
    /\ UNCHANGED managerVars
    /\ UNCHANGED streamVars
    /\ UNCHANGED pipelineVars

Spec == Init /\ [][Next]_vars

\* one parse of one listing
ParseInit ==
    /\ TaskIdle
    /\ context = EmptyObject
    /\ simctlString \in SimctlOutputs
    /\ ParserIdle
    /\ NoManager
    /\ StreamIdle
    /\ PipelineIdle

ParseNext ==
    /\ GetSimulatedDevices
    /\ UNCHANGED taskVars
    /\ UNCHANGED managerVars
    /\ UNCHANGED streamVars
    /\ UNCHANGED pipelineVars

ParseSpec == ParseInit /\ [][ParseNext]_vars

\* one construction of the device manager, and the lookups that follow
RegistryInit ==
    /\ TaskIdle
    /\ context = EmptyObject
    /\ simctlString \in ManagerOutputs
    /\ ParserIdle
    /\ config \in ConfigChoices
    /\ simctlFails \in BOOLEAN
    /\ ManagerIdle
    /\ StreamIdle
    /\ PipelineIdle

RegistryNext ==
    /\ \/ DeviceManager
       \/ \E tag \in LookupTags : FindByTag(tag)
    /\ UNCHANGED taskVars
    /\ UNCHANGED streamVars
    /\ UNCHANGED pipelineVars

RegistrySpec == RegistryInit /\ [][RegistryNext]_vars


\* one job of the orchestrator, and the rendering of its result
PipelineSpecInit ==
    /\ TaskIdle
    /\ context = EmptyObject
    /\ simctlString = <<>>
    /\ ParserIdle
    /\ NoManager
    /\ StreamIdle
    /\ PipelineInit

PipelineNext ==
    /\ PipelineStep
    /\ UNCHANGED taskVars
    /\ UNCHANGED parserVars
    /\ UNCHANGED managerVars
    /\ UNCHANGED streamVars

PipelineSpec == PipelineSpecInit /\ [][PipelineNext]_vars

\* one parse of one listing, loop by loop
StreamSpecInit ==
    /\ TaskIdle
    /\ context = EmptyObject
    /\ ParserIdle
    /\ NoManager
    /\ StreamInit
    /\ PipelineIdle

StreamNext ==
    /\ StreamStep
    /\ UNCHANGED taskVars
    /\ UNCHANGED <<parseState, simulatedDevices, parseError, createCalls>>
    /\ UNCHANGED managerVars
    /\ UNCHANGED pipelineVars

StreamSpec == StreamSpecInit /\ [][StreamNext]_vars
(***************************************************************************)
(* Properties of the repo-checkout task                                    *)
(***************************************************************************)
\* C1: whichever of the four commands completes with an error, once execute
\* has finished its callback has been called with an error (for n = 1..4).
C1_EveryFailureSurfaced ==
    \A n \in 1..Len(completed) :
        (IsError(completed[n]) /\ pc = "done")
            => Len(cbCalls) = 1 /\ IsError(cbCalls[1].error)

\* C2: when mkdir, repo init or repo sync (command k <= 3) completes with an
\* error, command k is the last one issued and completed, the callback has
\* been called once with exactly that error, and the output it received has
\* no key at all, so no version.
C2_StopsAtFirstFailure ==
    \A k \in 1..Len(completed) :
        (k <= 3 /\ IsError(completed[k]))
            => /\ Len(issued) = k
               /\ Len(completed) = k
               /\ pc = "done"
               /\ Len(cbCalls) = 1
               /\ cbCalls[1].error = completed[k]
               /\ "version" \notin DOMAIN cbCalls[1].output
               /\ DOMAIN cbCalls[1].output = {}

\* C2 witness: repo sync, the third command, has failed and execute is done
C2_SyncFailed ==
    /\ Len(completed) = 3
    /\ IsError(completed[3])
    /\ ~IsError(completed[2])
    /\ pc = "done"
    /\ Len(cbCalls) = 1


\* which of the four commands an exec call runs
CommandOf(call) ==
    IF call.cmd = <<"mkdir">> THEN "mkdir"
    ELSE IF call.cmd = <<"git">> THEN "git " \o call.args[1]
    ELSE "repo " \o call.args[1]

CommandOrder == <<"mkdir", "repo init", "repo sync", "git rev-parse">>

\* C17: the exec calls made so far are the first commands of the order
\* mkdir, repo init, repo sync, git rev-parse HEAD; at most the last one
\* issued has not completed; and every command but the first was issued
\* after the one before it completed without error.
C17_StrictOrder ==
    /\ Len(issued) <= Len(CommandOrder)
    /\ \A k \in 1..Len(issued) : CommandOf(issued[k]) = CommandOrder[k]
    /\ Len(completed) <= Len(issued)
    /\ Len(issued) <= Len(completed) + 1
    /\ \A k \in 2..Len(issued) : ~IsError(completed[k - 1])

\* C17 witness: git rev-parse HEAD is in flight after three commands
\* completed, and has printed a line
C17_RevParseInFlight ==
    /\ Len(issued) = 4
    /\ Len(completed) = 3
    /\ pc = "revparse"
    /\ delivered >= 1

\* the context keys execute assigns
OwnKeys == {"checkout_root", "project_root"}

\* C18: a step never removes a context key, adds no key but checkout_root
\* and project_root and changes the value of no other key; both keys are
\* set once a command is issued; and after execute's first step the
\* context does not change any more, however the commands end.
C18_ContextFrame ==
    [][ /\ DOMAIN context \subseteq DOMAIN context'
        /\ DOMAIN context' \subseteq DOMAIN context \cup OwnKeys
        /\ \A k \in DOMAIN context \ OwnKeys : context'[k] = context[k]
        /\ issued' # <<>> => OwnKeys \subseteq DOMAIN context'
        /\ pc # "idle" => context' = context ]_vars

\* C18 witness: execute failed on a context that came with a device and an
\* older checkout_root: the device is kept, the checkout_root overwritten
C18_FailedWithEarlierKeys ==
    /\ pc = "done"
    /\ IsError(cbCalls[1].error)
    /\ "device" \in DOMAIN context
    /\ context.device = <<"ios-simulator">>
    /\ context.working_dir = <<"tmp", "job2">>
    /\ context.checkout_root = <<"tmp", "job2", "project">>

\* C19: the callback of execute is called at most once; it has been called
\* exactly when execute is done, which is exactly when execute has started
\* and every command it issued has completed.
C19_CallbackOnce ==
    /\ Len(cbCalls) <= 1
    /\ (pc = "done") <=> (Len(cbCalls) = 1)
    /\ Len(cbCalls) = 1 => issued # <<>> /\ Len(completed) = Len(issued)
    /\ (pc # "idle" /\ Len(completed) = Len(issued)) => Len(cbCalls) = 1

\* C19 witness: all four commands completed, the last one with an error, and
\* the callback was called once
C19_CalledAfterFourthFailed ==
    /\ Len(issued) = 4
    /\ Len(completed) = 4
    /\ IsError(completed[4])
    /\ Len(cbCalls) = 1
(***************************************************************************)
(* Properties of the listing parser.  The layout of a listing is described *)
(* here from its lines alone, by position (1-based), not by the parser.    *)
(***************************************************************************)
\* the lines of the listing being parsed
InputLines == Split(simctlString, "\n")

StartsWith(s, prefix) ==
    Len(s) >= Len(prefix) /\ SubSeq(s, 1, Len(prefix)) = prefix

HasChar(s, c) == \E i \in 1..Len(s) : s[i] = c

HasText(s, text) ==
    \E i \in 0..(Len(s) - Len(text)) : SubSeq(s, i + 1, i + Len(text)) = text

\* least element of a set of positions, or `none` when it is empty
Least(S, none) == IF S = {} THEN none ELSE CHOOSE x \in S : \A y \in S : x <= y

\* position of the first "== Device Types ==" line, 0 when there is none
TypesAt(L) == Least({ i \in 1..Len(L) : StartsWith(L[i], StrDeviceTypes) }, 0)

\* position of the first "== Devices ==" line after it, 0 when there is none
DevicesAt(L) ==
    IF TypesAt(L) = 0 THEN 0
    ELSE Least({ j \in (TypesAt(L) + 1)..Len(L) :
                   StartsWith(L[j], StrDevices) }, 0)

HasSections(L) == DevicesAt(L) # 0

\* the positions of the Devices section: after its header, up to the next
\* line starting with "==" or the end of the listing
SectionLines(L) ==
    IF ~HasSections(L) THEN {}
    ELSE LET stop == Least({ k \in (DevicesAt(L) + 1)..Len(L) :
                               StartsWith(L[k], StrEquals) }, Len(L) + 1)
         IN  (DevicesAt(L) + 1)..(stop - 1)

\* where the grammar has an OS-level header: the first line of the section
\* and every later line of it starting with "--"
OSLevelPositions(L) ==
    { i \in SectionLines(L) :
        i = DevicesAt(L) + 1 \/ StartsWith(L[i], StrDashes) }

\* where the grammar has a device entry
EntryPositions(L) == SectionLines(L) \ OSLevelPositions(L)

\* L without the lines at the positions in `drop`
RECURSIVE WithoutFrom(_, _, _)
WithoutFrom(L, drop, i) ==
    IF i > Len(L) THEN <<>>
    ELSE (IF i \in drop THEN <<>> ELSE <<L[i]>>) \o WithoutFrom(L, drop, i + 1)

Without(L, drop) == WithoutFrom(L, drop, 1)

\* a line the parser must pass over
Unavailable(line) == HasText(line, StrUnavailable)

\* position of the first character c of a line, 0 when it has none
FirstAt(line, c) == Least({ i \in 1..Len(line) : line[i] = c }, 0)

\* a kept entry line createDevice must refuse: no "(", no ")", or fewer
\* than 10 characters between the first "(" and the first ")"
MalformedEntry(line) ==
    \/ ~HasChar(line, "(")
    \/ ~HasChar(line, ")")
    \/ FirstAt(line, ")") - FirstAt(line, "(") - 1 < 10

\* the parse ran to its end
Parsed == parseState # "ready"

\* every returned device is the value of the createDevice call at its place
DevicesComeFromCalls ==
    parseState = "returned" =>
        /\ Len(simulatedDevices) = Len(createCalls)
        /\ \A i \in 1..Len(createCalls) :
              /\ createCalls[i].line = InputLines[createCalls[i].index + 1]
              /\ simulatedDevices[i].identifier
                    = SubSeq(createCalls[i].line,
                             FirstAt(createCalls[i].line, "(") + 1,
                             FirstAt(createCalls[i].line, ")") - 1)

\* the tag and identifier the example of the specification expects
ExampleTag ==
    <<"i", "o", "s", "-", "s", "i", "m", "u", "l", "a", "t", "o", "r", ",",
      "O", "S", "=", "9", ".", "1", ",", "n", "a", "m", "e", "=", "i", "P",
      "h", "o", "n", "e", " ", "4", "s">>

ExampleIdentifier ==
    <<"0", "5", "6", "8", "6", "2", "4", "3", "-", "B", "A", "2", "4", "-",
      "4", "4", "C", "E", "-", "9", "4", "D", "9", "-", "D", "6", "8", "2",
      "3", "B", "F", "9", "6", "E", "4", "6">>

\* the example listing, ending in a newline
ExampleListing ==
    JoinLines(<<LineDeviceTypes, LineDevices, LineOS, LineDevice, LineEmpty>>)

\* C3: the parse of the example listing returns exactly one device, with
\* the expected tag and identifier, and throws nothing.
C3_ExampleParses ==
    (Parsed /\ simctlString = ExampleListing)
        => /\ parseState = "returned"
           /\ Len(simulatedDevices) = 1
           /\ simulatedDevices[1].tag = ExampleTag
           /\ simulatedDevices[1].identifier = ExampleIdentifier

\* the empty lines of the Devices section after its first line
EmptyLinePositions(L) ==
    { i \in SectionLines(L) : i > DevicesAt(L) + 1 /\ L[i] = <<>> }

\* C4: when the listing without the empty lines of its Devices section
\* parses, the listing with them parses too, to the same devices.
C4_EmptyLinesTolerated ==
    Parsed =>
        LET L     == InputLines
            plain == getSimulatedDevicesFromLines(Without(L, EmptyLinePositions(L)))
        IN  ~plain.threw
                => parseState = "returned" /\ simulatedDevices = plain.value

\* the entry positions holding an unavailable device
UnavailablePositions(L) == { i \in EntryPositions(L) : Unavailable(L[i]) }

\* C5: createDevice is never called with a line containing "unavailable",
\* its check for such a line never throws, no returned device comes from
\* such a line, and the outcome of the parse (devices or error) is the one
\* of the listing without its unavailable entry lines.
C5_UnavailableSkipped ==
    Parsed =>
        /\ \A i \in 1..Len(createCalls) : ~Unavailable(createCalls[i].line)
        /\ ~StartsWith(parseError, MsgFedUnavailable)
        /\ DevicesComeFromCalls
        /\ LET L    == InputLines
               rest == getSimulatedDevicesFromLines(
                           Without(L, UnavailablePositions(L)))
           IN  /\ rest.threw = (parseState = "threw")
               /\ rest.threw => rest.error = parseError
               /\ ~rest.threw => rest.value = simulatedDevices

\* C5 witness: a listing with an unavailable entry was parsed to a device
C5_UnavailablePassedOver ==
    /\ parseState = "returned"
    /\ UnavailablePositions(InputLines) # {}
    /\ Len(simulatedDevices) >= 1

VersionToken(label) ==
    LET sp == FirstAt(label, " ")
    IN  IF sp = 0 THEN StrUndefined
        ELSE LET rest == SubSeq(label, sp + 1, Len(label))
                 sp2  == FirstAt(rest, " ")
             IN  IF sp2 = 0 THEN rest ELSE SubSeq(rest, 1, sp2 - 1)

\* the name of a device entry: the text before its first "(", trimmed
EntryName(line) == Trim(SubSeq(line, 1, FirstAt(line, "(") - 1))

\* the fields of device d other than its name, for label L and entry name N
OtherFieldsAsSpecified(d, L, N) ==
    LET V == VersionToken(L)
    IN  /\ d.platform = "ios"
        /\ d.tag = StrTagPrefix \o V \o StrNameSep \o N
        /\ d.destination = StrDestPrefix \o V \o StrNameSep \o N
        /\ d.simulator = TRUE

ExampleName ==
    <<"i", "o", "s", "-", "s", "i", "m", "u", "l", "a", "t", "o", "r", " ",
      "i", "P", "h", "o", "n", "e", " ", "4", "s", " ", "(", "9", ".", "1",
      ")">>

LabelOS ==
    <<"i", "O", "S", " ", "9", ".", "1">>

WellFormedOSHeader(h) ==
    /\ StartsWith(h, StrDashes)
    /\ HasText(SubSeq(h, 3, Len(h)), StrDashes)
    /\ LET rest  == SubSeq(h, 3, Len(h))
           close == Least({ i \in 1..(Len(rest) - 1) :
                              SubSeq(rest, i, i + 1) = StrDashes }, 1)
           label == Trim(SubSeq(rest, 1, close - 1))
       IN  /\ HasChar(label, " ")
           /\ VersionToken(label) # <<>>

\* C8: a parse that returns has met no malformed OS-level header, and a
\* parse whose first OS-level header is malformed throws an error naming
\* that line.
C8_MalformedHeaderFails ==
    Parsed =>
        LET L == InputLines
        IN  /\ parseState = "returned"
                => \A p \in OSLevelPositions(L) : WellFormedOSHeader(L[p])
            /\ (OSLevelPositions(L) # {}
                  /\ ~WellFormedOSHeader(L[DevicesAt(L) + 1]))
                => /\ parseState = "threw"
                   /\ HasText(parseError, L[DevicesAt(L) + 1])

\* C9: a listing without a "== Device Types ==" line followed later by a
\* "== Devices ==" line makes the parse throw, with no device built or
\* returned; and every createDevice call is for a line after that
\* "== Devices ==" line.
C9_SectionsRequired ==
    Parsed =>
        LET L == InputLines
        IN  /\ ~HasSections(L)
                => /\ parseState = "threw"
                   /\ simulatedDevices = <<>>
                   /\ createCalls = <<>>
            /\ \A i \in 1..Len(createCalls) :
                  /\ HasSections(L)
                  /\ createCalls[i].index + 1 > DevicesAt(L)
                  /\ createCalls[i].index + 1 \in EntryPositions(L)
            /\ DevicesComeFromCalls

\* C9 witness: a listing whose only "== Devices ==" line precedes its
\* "== Device Types ==" line, with an OS level and a device entry after
\* them, made the parse throw
C9_DevicesBeforeTypes ==
    /\ parseState = "threw"
    /\ InputLines = <<LineDevices, LineDeviceTypes, LineOS, LineDevice>>
    /\ StartsWith(parseError, MsgAdvanceEnd)

(***************************************************************************)
(* Properties of the device manager                                        *)
(***************************************************************************)
\* the positions of the devices with tag t in a list of descriptors
TagPositions(list, t) == { i \in 1..Len(list) : list[i].tag = t }

Greatest(S) == CHOOSE x \in S : \A y \in S : x >= y

\* C10: on a built manager every findByTag(t) made returned null when
\* neither the configured nor the simulated devices carry t, and otherwise
\* the last device carrying t in the configured list followed by the
\* simulated list: the last simulated one whenever a simulated device
\* carries t.
C10_FindByTagLastWins ==
    \A k \in 1..Len(found) :
        LET t          == found[k].tag
            configured == IF "devices" \in DOMAIN config
                          THEN config.devices ELSE <<>>
            merged     == configured \o simulatedDevices
        IN  /\ manager.state = "built"
            /\ TagPositions(merged, t) = {}
                  => found[k].result = nullDevice
            /\ TagPositions(merged, t) # {}
                  => found[k].result = merged[Greatest(TagPositions(merged, t))]
            /\ TagPositions(simulatedDevices, t) # {}
                  => found[k].result
                       = simulatedDevices[
                             Greatest(TagPositions(simulatedDevices, t))]

\* C10 witness: a tag carried by a configured and by a simulated device was
\* looked up and the simulated device came back
C10_SimulatedOverConfigured ==
    /\ Len(found) >= 1
    /\ found[1].tag = TagDevice
    /\ "devices" \in DOMAIN config
    /\ TagPositions(config.devices, TagDevice) # {}
    /\ TagPositions(simulatedDevices, TagDevice) # {}
    /\ found[1].result.identifier = ExampleIdentifier


\* C11: in a built manager no two devices of the device list carry the same
\* tag, and the devices the tag map holds carry each its own key, so no two
\* of them carry the same tag either.
C11_TagsUnique ==
    manager.state = "built" =>
        /\ \A i, j \in 1..Len(manager.devices) :
              i # j => manager.devices[i].tag # manager.devices[j].tag
        /\ \A t \in DOMAIN manager.devicesByTag :
              manager.devicesByTag[t].tag = t

\* C12: a constructor that could not get the listing, or could not parse
\* it, has failed and is never built; the failed manager holds no device in
\* its map or its list, the configured ones included, and is never looked
\* up; a built manager holds every configured and every simulated device.
C12_AllOrNothing ==
    LET listingFails == simctlFails \/ getSimulatedDevices(simctlString).threw
    IN  /\ manager.state # "none" =>
              (manager.state = "failed" <=> listingFails)
        /\ manager.state = "failed" =>
              /\ DOMAIN manager.devicesByTag = {}
              /\ manager.devices = <<>>
              /\ found = <<>>
        /\ manager.state = "built" =>
              Len(manager.devices) =
                  Len(configDevices(config)) + Len(simulatedDevices)
        /\ found # <<>> => manager.state = "built"

\* the constructor failed on a listing that does not parse although devices
\* were configured
C12_ParseFailedWithConfigured ==
    /\ manager.state = "failed"
    /\ ~simctlFails
    /\ parseState = "threw"
    /\ configDevices(config) # <<>>

(***************************************************************************)
(* Reading a tag and a destination back                                    *)
(***************************************************************************)
\* "ios-simulator,", the part of the tag before the destination
StrTagLead == SubSeq(StrTagPrefix, 1, Len(StrTagPrefix) - Len(StrDestPrefix))

\* the text between "OS=" and the first ",name=" of a destination
DestinationVersion(destination) ==
    Slice(destination, Len(StrDestPrefix), IndexOf(destination, StrNameSep))

\* the text after the first ",name=" of a destination
DestinationName(destination) ==
    SubSeq(destination,
           IndexOf(destination, StrNameSep) + Len(StrNameSep) + 1,
           Len(destination))

\* device i of a returned parse reads back as the name of its entry line and
\* the text os
ReadsBackAs(i, os) ==
    LET d == simulatedDevices[i]
    IN  /\ d.tag = StrTagLead \o d.destination
        /\ StartsWith(d.destination, StrDestPrefix)
        /\ DestinationName(d.destination) = EntryName(createCalls[i].line)
        /\ DestinationVersion(d.destination) = os

\* the listing's OS-level headers are all as the grammar has them
ValidHeaders == \A p \in OSLevelPositions(InputLines) :
                    WellFormedOSHeader(InputLines[p])

KeptPositions(L) ==
    { i \in SectionLines(L) :
        /\ ~StartsWith(L[i], StrDashes)
        /\ ~StartsWith(L[i], StrEquals)
        /\ ~Unavailable(L[i]) }

\* the Devices section is empty or opens with a "--" line, and each of its
\* kept lines is an entry createDevice accepts
SectionWellFormed(L) ==
    /\ HasSections(L)
    /\ SectionLines(L) # {} => StartsWith(L[DevicesAt(L) + 1], StrDashes)
    /\ \A i \in KeptPositions(L) : ~MalformedEntry(L[i])

\* C16: every createDevice call is for a line of the Devices section, before
\* its closing "==" line; a parse that returns made one call per kept line
\* of the section, in listing order, and returns the devices of those calls;
\* and a listing whose section is well formed is parsed to its end.
C16_OneDevicePerEntryLine ==
    Parsed =>
        LET L    == InputLines
            kept == KeptPositions(L)
        IN  /\ \A k \in 1..Len(createCalls) :
                  createCalls[k].index + 1 \in SectionLines(L)
            /\ parseState = "returned"
                  => /\ Len(createCalls) = Cardinality(kept)
                     /\ \A k \in 1..Len(createCalls) :
                           LET p == createCalls[k].index + 1
                           IN  /\ p \in kept
                               /\ Cardinality({ q \in kept : q <= p }) = k
                     /\ DevicesComeFromCalls
            /\ SectionWellFormed(L) => parseState = "returned"

\* C16 witness: a parse returned a device although an entry line follows the
\* "==" line that closes the Devices section
C16_EntryAfterNextSection ==
    /\ parseState = "returned"
    /\ Len(simulatedDevices) >= 1
    /\ \E i \in 1..Len(InputLines) :
          /\ i \notin SectionLines(InputLines)
          /\ i > DevicesAt(InputLines)
          /\ InputLines[i] = LineDevice10

(***************************************************************************)
(* Properties of the pipeline orchestrator                                 *)
(***************************************************************************)
\* the place of the Task Result recorded last
LastRecorded ==
    <<Len(pipelineResult), Len(pipelineResult[Len(pipelineResult)].tasks)>>

\* an execute call handed back the abort signal
AbortIssued == \E k \in 1..Len(executed) : executed[k].outcome.abort

\* C14: an execute call that handed back the abort signal is the last one
\* made and its Task Result the last one recorded; from then on the job is
\* Running with only the step to Aborted left, or Aborted; a job is Aborted
\* only after an abort signal and Finished only without one.
C14_AbortStopsPipeline ==
    /\ \A k \in 1..Len(executed) :
          executed[k].outcome.abort
              => /\ k = Len(executed)
                 /\ LastRecorded = <<executed[k].phase, executed[k].task>>
                 /\ jobState \in {"Running", "Aborted"}
                 /\ jobState = "Running"
                       => /\ ENABLED Advance
                          /\ ~ENABLED (\E p \in TaskParamChoices,
                                          o \in TaskOutcomes : RunTask(p, o))
    /\ jobState = "Aborted" => AbortIssued
    /\ jobState = "Finished" => ~AbortIssued

\* C14 witness: task 2 of phase 1 of a two-phase pipeline aborted, the job
\* is Aborted and phase 2 has no result
C14_AbortedInPhaseOne ==
    /\ pipeline = [phases |-> 2, tasks |-> 2]
    /\ jobState = "Aborted"
    /\ Len(executed) = 2
    /\ executed[2].outcome.abort
    /\ <<executed[2].phase, executed[2].task>> = <<1, 2>>
    /\ Len(pipelineResult) = 1
    /\ Len(pipelineResult[1].tasks) = 2

\* C15: every execute call's Task Result is recorded with the errors and
\* output handed back; while no abort signal was handed back the job is not
\* Aborted and, Running, has a next step; a Finished job has a result for
\* every task of every declared phase; and the rendered summary marks a
\* task as errored, and lists its errors, exactly when its errors list is
\* not empty.
C15_FailureContinues ==
    /\ \A k \in 1..Len(executed) :
          LET r == pipelineResult[executed[k].phase].tasks[executed[k].task]
          IN  /\ r.errors = executed[k].outcome.errors
              /\ r.output = executed[k].outcome.output
    /\ ~AbortIssued
          => /\ jobState # "Aborted"
             /\ jobState = "Running" => ENABLED PipelineStep
    /\ jobState = "Finished"
          => /\ Len(pipelineResult) = pipeline.phases
             /\ \A i \in 1..Len(pipelineResult) :
                   Len(pipelineResult[i].tasks) = pipeline.tasks
    /\ summary # <<>>
          => /\ Len(summary) = Len(pipelineResult)
             /\ \A i \in 1..Len(pipelineResult) :
                   /\ Len(summary[i].tasks) = Len(pipelineResult[i].tasks)
                   /\ \A j \in 1..Len(pipelineResult[i].tasks) :
                         LET r == pipelineResult[i].tasks[j]
                             s == summary[i].tasks[j]
                         IN  /\ s.taskError = (r.errors # <<>>)
                             /\ s.errors = r.errors

\* C15 witness: task 2 of phase 1 of a two-phase pipeline failed without
\* abort, phase 2 ran, the job is Finished and the summary marks that task
\* alone
C15_FailedInPhaseOneFinished ==
    /\ pipeline = [phases |-> 2, tasks |-> 2]
    /\ jobState = "Finished"
    /\ Len(executed) = 4
    /\ executed[2].outcome.errors = <<"exit code 1">>
    /\ \A k \in {1, 3, 4} : executed[k].outcome.errors = <<>>
    /\ Len(pipelineResult) = 2
    /\ Len(pipelineResult[2].tasks) = 2
    /\ summary # <<>>
    /\ summary[1].tasks[2].taskError
    /\ summary[1].tasks[2].errors = <<"exit code 1">>
    /\ \A i, j \in 1..2 : <<i, j>> # <<1, 2>> => ~summary[i].tasks[j].taskError

(***************************************************************************)
(* Properties of the parser's loops                                        *)
(***************************************************************************)
\* the parse is over
Ended(at) == at \in {"returned", "threw"}

\* a step that is a pass of a loop, not the exit of one
LoopPass(from, to) ==
    \/ from \in {"types", "devices"}
    \/ from = "oslevel" /\ to # "returned"
    \/ from = "entry" /\ to # "oslevel"

\* what is left to do: three per line not yet consumed, and the loops still
\* to leave
Remaining(at, index) ==
    3 * (Len(streamLines) - index)
        + (IF Ended(at) THEN 0 ELSE IF at = "entry" THEN 2 ELSE 1)

\* C20: in every step of the parse the cursor does not move back and stays
\* within the number of lines; a pass of the header-skipping loop, the
\* OS-level loop or the entry loop moves it on by one line or throws; the
\* work remaining, which is never negative, gets less, so the parse ends
\* after finitely many steps; and it ends returned or thrown, with nothing
\* done after.
C20_CursorAdvances ==
    [][ /\ ~Ended(loop)
        /\ cursor' >= cursor
        /\ cursor' <= Len(streamLines)
        /\ streamLines' = streamLines
        /\ LoopPass(loop, loop') => (cursor' = cursor + 1 \/ loop' = "threw")
        /\ Remaining(loop', cursor') >= 0
        /\ Remaining(loop', cursor') < Remaining(loop, cursor)
        /\ loop' = "threw" <=> streamError' # <<>> ]_vars

\* C20 witness: a parse has returned devices before the end of the lines,
\* at the line that opens the next section
C20_ReturnedBeforeEnd ==
    /\ loop = "returned"
    /\ cursor < Len(streamLines)
    /\ StartsWith(streamLines[cursor + 1], StrEquals)
    /\ Len(streamResults) >= 1
====
